---- MODULE Spec2Model ----
(***************************************************************************)
(* Video-Caption-API: the job pipeline of Backend/app/services             *)
(* (video_service.py, database.py) and the upload route that starts it     *)
(* (routes/video_routes.py), as a state machine.                           *)
(*                                                                         *)
(* One job is one upload: create_job inserts the row, upload_video saves   *)
(* the file and queues background_video_processing, which runs             *)
(* generate_subtitles statement by statement.  The external stages         *)
(* (ffmpeg, Whisper, moviepy) and os.remove are the environment: each      *)
(* returns or raises, chosen nondeterministically.  Jobs interleave at     *)
(* every step.  The sqlite statements are taken to execute (the except     *)
(* branches of database.py, which only print and return False, are the     *)
(* store failing and are not taken here).                                  *)
(*                                                                         *)
(* The specifications share the variables.  Spec is the pipeline above.    *)
(* SpecDownload is GET /jobs/{job_id}/download against every store and     *)
(* TEMP_DIR the pipeline's writes can leave behind.  SpecSegment is one     *)
(* call of _combine_words (the segmentation of words into subtitle lines)   *)
(* on drawn word lists and limits; times are floats of FloatBits            *)
(* significant bits counted in ticks, texts are sequences of characters.    *)
(* SpecCaption continues it with the caption layers built from the lines.  *)
(* SpecStatus is GET /jobs/{job_id}/status on the same stores as           *)
(* SpecDownload.  SpecStoreFault is the pipeline with the INSERT of         *)
(* create_job_db failing; SpecStoreWrites applies the store's three         *)
(* UPDATEs to rows in any status.                                           *)
(* SpecLive is Spec with every started task running on (weak fairness on   *)
(* its steps): no stage hangs.                                             *)
(***************************************************************************)
EXTENDS Integers, Sequences, FiniteSets, TLC

\* Number of uploads (job ids drawn by uuid4 are pairwise distinct).
NumJobs == 2

JobIds == 1..NumJobs

\* class Status(Enum)
NotStarted == 1
Processing == 2
Completed == 3
Failed == 4

\* datetime(1, 1, 1, 1, 1, 1, 1), the Completed_At written at creation.
SentinelDatetime == "0001-01-01 01:01:01.000001"
\* datetime.now(): some instant of the present, never the sentinel.
DatetimeNow == "now"

\* datetime.now() on a whole second (microsecond 0): the text sqlite3 stores
\* for it, isoformat(" "), has no fraction part.
DatetimeNowWholeSecond == "now, microsecond 0"

\* Uploaded file names, by what Path(name).stem and Path(name).suffix give.
VideoFilenames ==
    { [stem |-> [id |-> 0, name |-> "clip"], suffix |-> ".mp4"],
      [stem |-> [id |-> 0, name |-> "song"], suffix |-> ".mp3"] }

\* str(e) of an exception raised by an external stage (may be empty).
ErrTexts == {"", "stage error"}

VARIABLES
    Jobs,            \* the rows of table Jobs
    files,           \* the paths that exist in TEMP_DIR
    pc,              \* per job: the next statement of its request / task
    args,            \* per job: (input_path, output_path) handed to the task
    audio_filename,  \* per job: the local of generate_subtitles
    exc,             \* per job: the exception in flight, or NoExc
    escaped,         \* per job: an exception left background_video_processing
    log,             \* per job: stage calls, stage returns and row writes, in order
    response,        \* what the last call of download_job answered
    data,            \* _run_combine_words: its argument data (the words)
    max_chars,       \* _run_combine_words: its argument max_chars
    max_duration,    \* _run_combine_words: its argument max_duration
    max_gap,         \* _run_combine_words: its argument max_gap
    returned,        \* _run_combine_words has returned
    subtitle_lines,  \* _run_combine_words: what it returned
    shadow,          \* _create_caption: subtitle_data.shadow
    all_clips,       \* generate_subtitles: the layers handed to _render_output_video
    captioned        \* all_clips has been built

segvars == <<data, max_chars, max_duration, max_gap, returned, subtitle_lines>>
capvars == <<shadow, all_clips, captioned>>
vars == <<Jobs, files, pc, args, audio_filename, exc, escaped, log, response, segvars, capvars>>

\* ------------------------------------------------------------------ paths

NoPath == [stem |-> [id |-> 0, name |-> ""], suffix |-> ""]
NoArgs == [input_path |-> NoPath, output_path |-> NoPath]

\* f"{job_id}_input{Path(video_filename).suffix}" under TEMP_DIR
InputPath(job_id, video_filename) ==
    [stem |-> [id |-> job_id, name |-> "_input"], suffix |-> video_filename.suffix]

\* f"{job_id}_output.mp4" under TEMP_DIR
OutputPath(job_id) ==
    [stem |-> [id |-> job_id, name |-> "_output"], suffix |-> ".mp4"]

\* TEMP_DIR / (Path(video_file).stem + ".mp3")
AudioFilePath(video_file) ==
    [stem |-> video_file.stem, suffix |-> ".mp3"]

\* The job whose id a path of TEMP_DIR carries.
PathOwner(p) == p.stem.id

\* ------------------------------------------------------------------ events

\* What a job's log records: a row write (status, progress), a stage handed to
\* its executor, a stage's return (ok) or failure (not ok, with str(e)), and an
\* os.remove of the audio or the input file.
WriteEv(status_id, progress) ==
    [ev |-> "write", stage |-> "", ok |-> TRUE, text |-> "",
     status |-> status_id, progress |-> progress]
CallEv(stage) ==
    [ev |-> "call", stage |-> stage, ok |-> TRUE, text |-> "", status |-> 0, progress |-> 0]
RetEv(stage, ok, text) ==
    [ev |-> "ret", stage |-> stage, ok |-> ok, text |-> text, status |-> 0, progress |-> 0]
RemoveEv(what, ok, text) ==
    [ev |-> "remove", stage |-> what, ok |-> ok, text |-> text, status |-> 0, progress |-> 0]

\* ------------------------------------------------------------------ store

HasRow(tbl, job_id) == \E r \in tbl : r.Job_ID = job_id
RowOf(tbl, job_id) == CHOOSE r \in tbl : r.Job_ID = job_id

\* INSERT INTO Jobs (...) VALUES (...): Download_URL and Failed_Message take
\* their column defaults ''.
create_job_db(tbl, job_data) ==
    tbl \cup { [ Job_ID            |-> job_data.job_id,
                 Progress          |-> job_data.progress,
                 Input_Path        |-> job_data.input_path,
                 Output_Path       |-> job_data.output_path,
                 Original_Filename |-> job_data.original_filename,
                 Created_At        |-> job_data.created_at,
                 Completed_At      |-> SentinelDatetime,
                 Status_ID         |-> job_data.status_id,
                 Download_URL      |-> <<>>,
                 Failed_Message    |-> "" ] }

\* The UPDATE with a guard on the row's status:
\* ... WHERE Job_ID = ? AND Status_ID NOT IN (3, 4)
update_job_status_db_guarded(tbl, job_id, status_id, progress) ==
    { IF r.Job_ID = job_id /\ r.Status_ID \notin {3, 4}
        THEN [r EXCEPT !.Status_ID = status_id, !.Progress = progress]
        ELSE r : r \in tbl }

\* UPDATE Jobs SET Status_ID = ?, Progress = ? WHERE Job_ID = ?
update_job_status_db(tbl, job_id, status_id, progress) ==
    { IF r.Job_ID = job_id
        THEN [r EXCEPT !.Status_ID = status_id, !.Progress = progress]
        ELSE r : r \in tbl }

\* The UPDATE without its WHERE clause: every row is marked failed.
update_job_failed_db_all_rows(tbl, job_id, failed_message) ==
    { [r EXCEPT !.Status_ID = 4, !.Progress = 0, !.Failed_Message = failed_message]
        : r \in tbl }

\* The UPDATE with Progress left out of its SET list.
update_job_failed_db_keeps_progress(tbl, job_id, failed_message) ==
    { IF r.Job_ID = job_id
        THEN [r EXCEPT !.Status_ID = 4, !.Failed_Message = failed_message]
        ELSE r : r \in tbl }

\* UPDATE Jobs SET Status_ID = 4, Progress = 0, Failed_Message = ? WHERE Job_ID = ?
update_job_failed_db(tbl, job_id, failed_message) ==
    { IF r.Job_ID = job_id
        THEN [r EXCEPT !.Status_ID = 4, !.Progress = 0,
                       !.Failed_Message = failed_message]
        ELSE r : r \in tbl }

\* The UPDATE with Download_URL left out of its SET list.
update_job_completed_db_no_url(tbl, job_id) ==
    { IF r.Job_ID = job_id
        THEN [r EXCEPT !.Status_ID = 3, !.Progress = 100,
                       !.Completed_At = DatetimeNow]
        ELSE r : r \in tbl }

\* UPDATE Jobs SET Status_ID = 3, Progress = 100, Completed_At = now,
\*                 Download_URL = f"/jobs/{job_id}/download" WHERE Job_ID = ?
update_job_completed_db(tbl, job_id) ==
    { IF r.Job_ID = job_id
        THEN [r EXCEPT !.Status_ID = 3, !.Progress = 100,
                       !.Completed_At = DatetimeNow,
                       !.Download_URL = <<"/jobs/", job_id, "/download">>]
        ELSE r : r \in tbl }

\* ------------------------------------------------------------------ exceptions

NoExc == [raised |-> FALSE, kind |-> "", text |-> ""]
Raise(kind, text) == [raised |-> TRUE, kind |-> kind, text |-> text]

\* The exception classes met on the job's path: ValueError (raised by
\* generate_subtitles), the exceptions of the external stages, OSError (os.remove).
ExcKinds == {"ValueError", "StageError", "OSError"}

\* A handler that names one class only: except ValueError as e.
ExceptValueErrorOnly(kind) == kind = "ValueError"

\* except Exception as e: every class above derives from Exception.
ExceptException(kind) == kind \in ExcKinds

\* str(e) of ValueError(f"Failed to convert video to audio: {self.input_file_path}")
ConvertErrText == "Failed to convert video to audio"
\* str(e) of the OSError of a failed os.remove
RemoveErrText == "cannot remove the file"

\* The failure message without its "Error: " prefix.
FailedMessageBare(e) == e.text

\* f"Error: {str(e)}"
FailedMessage(e) == "Error: " \o e.text

\* ------------------------------------------------------------------ responses

\* An HTTP answer of download_job: HTTPException(status_code, detail), or the
\* FileResponse (200) with its path and its download file name.
HTTPException(job_id, status_code, detail) ==
    [job_id |-> job_id, status_code |-> status_code, detail |-> detail,
     path |-> NoPath, filename |-> <<>>]
FileResponse(job_id, path, filename) ==
    [job_id |-> job_id, status_code |-> 200, detail |-> "",
     path |-> path, filename |-> filename]
\* No request has been answered yet.
NoResponse == HTTPException(0, 0, "")

\* ------------------------------------------------------------------ init

\* No job has been uploaded.
PipelineIdle ==
    /\ pc = [j \in JobIds |-> "idle"]
    /\ args = [j \in JobIds |-> NoArgs]
    /\ audio_filename = [j \in JobIds |-> NoPath]
    /\ exc = [j \in JobIds |-> NoExc]
    /\ escaped = [j \in JobIds |-> ""]
    /\ log = [j \in JobIds |-> <<>>]

\* No request has been answered.
RoutesIdle == response = NoResponse

\* _run_combine_words has not been called.
SegmentIdle ==
    /\ data = <<>>
    /\ max_chars = 0
    /\ max_duration = 0
    /\ max_gap = 0
    /\ returned = FALSE
    /\ subtitle_lines = <<>>

\* No layer has been built.
CaptionIdle ==
    /\ shadow = FALSE
    /\ all_clips = <<>>
    /\ captioned = FALSE

Init ==
    /\ Jobs = {}
    /\ files = {}
    /\ PipelineIdle
    /\ RoutesIdle
    /\ SegmentIdle
    /\ CaptionIdle

\* The variables that no statement of the upload and of the background task
\* touches.
outside == <<response, segvars, capvars>>

\* Job j moves on to the statement `label`.
Goto(j, label) == pc' = [pc EXCEPT ![j] = label] /\ UNCHANGED outside
Logged(j, evs) == log' = [log EXCEPT ![j] = @ \o evs]

\* ------------------------------------------------------------------ upload_video

\* create_job, called by upload_video: a fresh uuid4, the two paths, the row.
create_job(j, video_filename) ==
    /\ pc[j] = "idle"
    /\ LET input_path  == InputPath(j, video_filename)
           output_path == OutputPath(j)
           job_data    == [ job_id            |-> j,
                            status_id         |-> 1,
                            progress          |-> 0,
                            created_at        |-> DatetimeNow,
                            input_path        |-> input_path,
                            output_path       |-> output_path,
                            original_filename |-> video_filename ]
       IN /\ Jobs' = create_job_db(Jobs, job_data)
          /\ args' = [args EXCEPT ![j] = [input_path |-> input_path,
                                          output_path |-> output_path]]
    /\ Goto(j, "save_upload")
    /\ UNCHANGED <<files, audio_filename, exc, escaped, log>>

\* upload_video after create_job: the content is written to input_path and the
\* background task is queued with (job_id, input_path, output_path, options).
save_upload(j) ==
    /\ pc[j] = "save_upload"
    /\ files' = files \cup {args[j].input_path}
    /\ Goto(j, "bg_start")
    /\ UNCHANGED <<Jobs, args, audio_filename, exc, escaped, log>>

\* ------------------------------------------------------------------ background_video_processing

\* try: update_job_status_db(job_id, status_id=Status.NotStarted.value, progress=10)
bg_start(j) ==
    /\ pc[j] = "bg_start"
    /\ Jobs' = update_job_status_db(Jobs, j, NotStarted, 10)
    /\ Logged(j, <<WriteEv(NotStarted, 10)>>)
    /\ Goto(j, "extract_call")
    /\ UNCHANGED <<files, args, audio_filename, exc, escaped>>

\* extract_call with the transcription started on the audio while ffmpeg is
\* still writing it (the two stages pipelined).
extract_call_pipelined(j) ==
    /\ pc[j] = "extract_call"
    /\ Logged(j, <<CallEv("extract"), CallEv("transcribe")>>)
    /\ Goto(j, "extract_run")
    /\ UNCHANGED <<Jobs, files, args, audio_filename, exc, escaped>>

\* generate_subtitles: await self._convert_video_to_mp3(self.input_file_path),
\* up to the hand-over to the process pool.  A missing input returns None,
\* which generate_subtitles turns into ValueError.
extract_call(j) ==
    /\ pc[j] = "extract_call"
    /\ IF args[j].input_path \in files
         THEN /\ Logged(j, <<CallEv("extract")>>)
              /\ Goto(j, "extract_run")
              /\ UNCHANGED exc
         ELSE /\ Logged(j, <<CallEv("extract"), RetEv("extract", FALSE, ConvertErrText)>>)
              /\ exc' = [exc EXCEPT ![j] =
                           Raise("ValueError", ConvertErrText)]
              /\ Goto(j, "except")
    /\ UNCHANGED <<Jobs, files, args, audio_filename, escaped>>

\* ffmpeg has written the mp3: the path is returned, and generate_subtitles
\* writes the checkpoint (Processing, 25).  ffmpeg does not write over its own
\* input, so this needs audio_file_path # video_file.
extract_ok(j) ==
    /\ pc[j] = "extract_run"
    /\ AudioFilePath(args[j].input_path) # args[j].input_path
    /\ files' = files \cup {AudioFilePath(args[j].input_path)}
    /\ audio_filename' = [audio_filename EXCEPT ![j] = AudioFilePath(args[j].input_path)]
    /\ Jobs' = update_job_status_db(Jobs, j, Processing, 25)
    /\ Logged(j, <<RetEv("extract", TRUE, ""), WriteEv(Processing, 25)>>)
    /\ Goto(j, "transcribe_call")
    /\ UNCHANGED <<args, exc, escaped>>

\* except ffmpeg.Error: return None; then `if not audio_filename: raise ValueError`.
extract_none(j) ==
    /\ pc[j] = "extract_run"
    /\ exc' = [exc EXCEPT ![j] = Raise("ValueError", ConvertErrText)]
    /\ Logged(j, <<RetEv("extract", FALSE, ConvertErrText)>>)
    /\ Goto(j, "except")
    /\ UNCHANGED <<Jobs, files, args, audio_filename, escaped>>

\* Any other exception of the extraction (the pool, the pickling) propagates.
extract_raise(j, text) ==
    /\ pc[j] = "extract_run"
    /\ exc' = [exc EXCEPT ![j] = Raise("StageError", text)]
    /\ Logged(j, <<RetEv("extract", FALSE, text)>>)
    /\ Goto(j, "except")
    /\ UNCHANGED <<Jobs, files, args, audio_filename, escaped>>

\* A stage is handed to its executor.
stage_call(j, from, stage, to) ==
    /\ pc[j] = from
    /\ Logged(j, <<CallEv(stage)>>)
    /\ Goto(j, to)
    /\ UNCHANGED <<Jobs, files, args, audio_filename, exc, escaped>>

\* A stage that raises is submitted again (a retry loop around the stage).
stage_raise_retries(j, at, stage, text) ==
    /\ pc[j] = at
    /\ Logged(j, <<RetEv(stage, FALSE, text)>>)
    /\ Goto(j, stage \o "_call")
    /\ UNCHANGED <<Jobs, files, args, audio_filename, exc, escaped>>

\* A stage raises: the exception propagates out of generate_subtitles.
stage_raise(j, at, stage, text) ==
    /\ pc[j] = at
    /\ exc' = [exc EXCEPT ![j] = Raise("StageError", text)]
    /\ Logged(j, <<RetEv(stage, FALSE, text)>>)
    /\ Goto(j, "except")
    /\ UNCHANGED <<Jobs, files, args, audio_filename, escaped>>

\* raw_output = await self._set_raw_output(audio_filename)
transcribe_call(j) == stage_call(j, "transcribe_call", "transcribe", "transcribe_run")

\* The checkpoint after the transcription written with progress 20.
transcribe_ok_progress_20(j) ==
    /\ pc[j] = "transcribe_run"
    /\ Jobs' = update_job_status_db(Jobs, j, Processing, 20)
    /\ Logged(j, <<RetEv("transcribe", TRUE, ""), WriteEv(Processing, 20)>>)
    /\ Goto(j, "segment_call")
    /\ UNCHANGED <<files, args, audio_filename, exc, escaped>>

\* ... returned: update_job_status_db(self.job_id, Status.Processing.value, 50)
transcribe_ok(j) ==
    /\ pc[j] = "transcribe_run"
    /\ Jobs' = update_job_status_db(Jobs, j, Processing, 50)
    /\ Logged(j, <<RetEv("transcribe", TRUE, ""), WriteEv(Processing, 50)>>)
    /\ Goto(j, "segment_call")
    /\ UNCHANGED <<files, args, audio_filename, exc, escaped>>

transcribe_raise(j, text) == stage_raise(j, "transcribe_run", "transcribe", text)

\* modified_output = await self._combine_words(raw_output, ...)
segment_call(j) == stage_call(j, "segment_call", "segment", "segment_run")

\* ... returned: update_job_status_db(self.job_id, Status.Processing.value, 65)
segment_ok(j) ==
    /\ pc[j] = "segment_run"
    /\ Jobs' = update_job_status_db(Jobs, j, Processing, 65)
    /\ Logged(j, <<RetEv("segment", TRUE, ""), WriteEv(Processing, 65)>>)
    /\ Goto(j, "render_call")
    /\ UNCHANGED <<files, args, audio_filename, exc, escaped>>

segment_raise(j, text) == stage_raise(j, "segment_run", "segment", text)

\* VideoFileClip(input), _create_caption, await self._render_output_video(...)
render_call(j) == stage_call(j, "render_call", "render", "render_run")

\* The rendering returns without a file at output_file_path.
render_ok_writes_nothing(j) ==
    /\ pc[j] = "render_run"
    /\ Logged(j, <<RetEv("render", TRUE, "")>>)
    /\ Goto(j, "remove_audio")
    /\ UNCHANGED <<Jobs, files, args, audio_filename, exc, escaped>>

\* write_videofile(self.output_file_path) has written the output.
render_ok(j) ==
    /\ pc[j] = "render_run"
    /\ files' = files \cup {args[j].output_path}
    /\ Logged(j, <<RetEv("render", TRUE, "")>>)
    /\ Goto(j, "remove_audio")
    /\ UNCHANGED <<Jobs, args, audio_filename, exc, escaped>>

render_raise(j, text) == stage_raise(j, "render_run", "render", text)

\* if os.path.exists(audio_filename): os.remove(audio_filename)
\* os.remove raises OSError when the deletion fails (removed = FALSE).
remove_audio(j, removed) ==
    /\ pc[j] = "remove_audio"
    /\ IF audio_filename[j] \notin files
         THEN /\ removed
              /\ Goto(j, "completed")
              /\ UNCHANGED <<files, exc, log>>
         ELSE IF removed
           THEN /\ files' = files \ {audio_filename[j]}
                /\ Logged(j, <<RemoveEv("audio", TRUE, "")>>)
                /\ Goto(j, "completed")
                /\ UNCHANGED exc
           ELSE /\ exc' = [exc EXCEPT ![j] = Raise("OSError", RemoveErrText)]
                /\ Logged(j, <<RemoveEv("audio", FALSE, RemoveErrText)>>)
                /\ Goto(j, "except")
                /\ UNCHANGED files
    /\ UNCHANGED <<Jobs, args, audio_filename, escaped>>

\* success = await process_video_with_subtitles(...) returned True:
\* update_job_completed_db(job_id)
bg_completed(j) ==
    /\ pc[j] = "completed"
    /\ Jobs' = update_job_completed_db(Jobs, j)
    /\ Logged(j, <<WriteEv(Completed, 100)>>)
    /\ Goto(j, "finally")
    /\ UNCHANGED <<files, args, audio_filename, exc, escaped>>

\* The except clause swallowing the exception without a write (`pass`).
bg_except_passes(j) ==
    /\ pc[j] = "except"
    /\ exc' = [exc EXCEPT ![j] = NoExc]
    /\ Goto(j, "finally")
    /\ UNCHANGED <<Jobs, files, args, audio_filename, escaped, log>>

\* except Exception as e: update_job_failed_db(job_id, f"Error: {str(e)}")
bg_except(j) ==
    /\ pc[j] = "except"
    /\ IF ExceptException(exc[j].kind)
         THEN /\ Jobs' = update_job_failed_db(Jobs, j, FailedMessage(exc[j]))
              /\ Logged(j, <<WriteEv(Failed, 0)>>)
              /\ exc' = [exc EXCEPT ![j] = NoExc]
         ELSE UNCHANGED <<Jobs, log, exc>>
    /\ Goto(j, "finally")
    /\ UNCHANGED <<files, args, audio_filename, escaped>>

\* bg_finally without the deletion of the input file.
bg_finally_keeps_input(j, removed) ==
    /\ pc[j] = "finally"
    /\ removed
    /\ escaped' = [escaped EXCEPT ![j] = exc[j].kind]
    /\ exc' = [exc EXCEPT ![j] = NoExc]
    /\ Goto(j, "done")
    /\ UNCHANGED <<Jobs, files, args, audio_filename, log>>

\* bg_finally with a failed deletion of the input escalated to the job's status.
bg_finally_escalates(j, removed) ==
    /\ pc[j] = "finally"
    /\ IF args[j].input_path \notin files
         THEN /\ removed
              /\ escaped' = [escaped EXCEPT ![j] = exc[j].kind]
              /\ UNCHANGED <<files, log, Jobs>>
         ELSE IF removed
           THEN /\ files' = files \ {args[j].input_path}
                /\ Logged(j, <<RemoveEv("input", TRUE, "")>>)
                /\ escaped' = [escaped EXCEPT ![j] = exc[j].kind]
                /\ UNCHANGED Jobs
           ELSE /\ Jobs' = update_job_failed_db(Jobs, j, FailedMessage(Raise("OSError", RemoveErrText)))
                /\ Logged(j, <<RemoveEv("input", FALSE, RemoveErrText), WriteEv(Failed, 0)>>)
                /\ escaped' = [escaped EXCEPT ![j] = ""]
                /\ UNCHANGED files
    /\ exc' = [exc EXCEPT ![j] = NoExc]
    /\ Goto(j, "done")
    /\ UNCHANGED <<args, audio_filename>>

\* finally: if os.path.exists(input_path): os.remove(input_path)
\* An exception of os.remove, or one the handler did not catch, leaves the task.
bg_finally(j, removed) ==
    /\ pc[j] = "finally"
    /\ IF args[j].input_path \notin files
         THEN /\ removed
              /\ escaped' = [escaped EXCEPT ![j] = exc[j].kind]
              /\ UNCHANGED <<files, log>>
         ELSE IF removed
           THEN /\ files' = files \ {args[j].input_path}
                /\ Logged(j, <<RemoveEv("input", TRUE, "")>>)
                /\ escaped' = [escaped EXCEPT ![j] = exc[j].kind]
           ELSE /\ Logged(j, <<RemoveEv("input", FALSE, RemoveErrText)>>)
                /\ escaped' = [escaped EXCEPT ![j] = "OSError"]
                /\ UNCHANGED files
    /\ exc' = [exc EXCEPT ![j] = NoExc]
    /\ Goto(j, "done")
    /\ UNCHANGED <<Jobs, args, audio_filename>>

\* ------------------------------------------------------------------ specification

Next ==
    \E j \in JobIds :
        \/ \E video_filename \in VideoFilenames : create_job(j, video_filename)
        \/ save_upload(j)
        \/ bg_start(j)
        \/ extract_call(j)
        \/ extract_ok(j)
        \/ extract_none(j)
        \/ \E text \in ErrTexts : extract_raise(j, text)
        \/ transcribe_call(j)
        \/ transcribe_ok(j)
        \/ \E text \in ErrTexts : transcribe_raise(j, text)
        \/ segment_call(j)
        \/ segment_ok(j)
        \/ \E text \in ErrTexts : segment_raise(j, text)
        \/ render_call(j)
        \/ render_ok(j)
        \/ \E text \in ErrTexts : render_raise(j, text)
        \/ \E removed \in BOOLEAN : remove_audio(j, removed)
        \/ bg_completed(j)
        \/ bg_except(j)
        \/ \E removed \in BOOLEAN : bg_finally(j, removed)

Spec == Init /\ [][Next]_vars

\* The steps of background_video_processing for job j once it has started:
\* the event loop resumes the task after each statement, and a stage handed
\* to its executor returns or raises.
TaskStep(j) ==
    \/ extract_call(j)
    \/ extract_ok(j)
    \/ extract_none(j)
    \/ \E text \in ErrTexts : extract_raise(j, text)
    \/ transcribe_call(j)
    \/ transcribe_ok(j)
    \/ \E text \in ErrTexts : transcribe_raise(j, text)
    \/ segment_call(j)
    \/ segment_ok(j)
    \/ \E text \in ErrTexts : segment_raise(j, text)
    \/ render_call(j)
    \/ render_ok(j)
    \/ \E text \in ErrTexts : render_raise(j, text)
    \/ \E removed \in BOOLEAN : remove_audio(j, removed)
    \/ bg_completed(j)
    \/ bg_except(j)
    \/ \E removed \in BOOLEAN : bg_finally(j, removed)

\* The pipeline with every started task running on: no stage hangs.
SpecLive == Spec /\ \A j \in JobIds : WF_vars(TaskStep(j))

\* ------------------------------------------------------------------ the store failing

\* create_job when the INSERT of create_job_db raises (database locked, disk
\* full): create_job_db prints, returns False, and create_job, which does not
\* look at the result, returns the job id and the paths all the same.
create_job_unrecorded(j, video_filename) ==
    /\ pc[j] = "idle"
    /\ args' = [args EXCEPT ![j] = [input_path  |-> InputPath(j, video_filename),
                                    output_path |-> OutputPath(j)]]
    /\ Goto(j, "save_upload")
    /\ UNCHANGED <<Jobs, files, audio_filename, exc, escaped, log>>

\* The pipeline with a store whose INSERT may fail.
NextStoreFault ==
    \/ Next
    \/ \E j \in JobIds : \E video_filename \in VideoFilenames :
           create_job_unrecorded(j, video_filename)

SpecStoreFault == Init /\ [][NextStoreFault]_vars

\* ------------------------------------------------------------------ download_job

\* datetime.strptime(text, FROMAT_DATETIME_STRING) with "%Y-%m-%d %H:%M:%S.%f"
\* raises ValueError on a text that has no fraction part.
StrptimeRaises(text) == text = DatetimeNowWholeSecond

\* get_job_download_URL_db: None when no row has the id, else the row as a
\* JobInformation; the two strptime calls are outside the try block.
get_job_download_URL_db(tbl, job_id) ==
    IF ~HasRow(tbl, job_id)
      THEN [kind |-> "None", status_id |-> 0, progress |-> 0,
            output_path |-> NoPath, original_filename |-> NoPath]
    ELSE LET row == RowOf(tbl, job_id)
         IN [kind |-> IF StrptimeRaises(row.Created_At) \/ StrptimeRaises(row.Completed_At)
                        THEN "ValueError" ELSE "JobInformation",
             status_id |-> row.Status_ID, progress |-> row.Progress,
             output_path |-> row.Output_Path,
             original_filename |-> row.Original_Filename]

\* download_job without the os.path.exists test of the output file.
download_job_no_exists_test(job_id) ==
    /\ LET job_data == get_job_download_URL_db(Jobs, job_id)
       IN response' =
            IF job_data.kind = "ValueError"
              THEN HTTPException(job_id, 500, "Internal Server Error")
            ELSE IF job_data.kind = "None"
              THEN HTTPException(job_id, 404, "Job not found")
            ELSE IF job_data.progress # 100 \/ job_data.status_id # 3
              THEN HTTPException(job_id, 400, "Video processing not completed")
            ELSE FileResponse(job_id, job_data.output_path,
                              <<"captioned_", job_data.original_filename.stem.name, ".mp4">>)
    /\ UNCHANGED <<Jobs, files, pc, args, audio_filename, exc, escaped, log, segvars, capvars>>

\* GET /jobs/{job_id}/download.  An exception of the read (ValueError) is
\* answered 500 by the framework.
download_job(job_id) ==
    /\ LET job_data == get_job_download_URL_db(Jobs, job_id)
       IN response' =
            IF job_data.kind = "ValueError"
              THEN HTTPException(job_id, 500, "Internal Server Error")
            ELSE IF job_data.kind = "None"
              THEN HTTPException(job_id, 404, "Job not found")
            ELSE IF job_data.progress # 100 \/ job_data.status_id # 3
              THEN HTTPException(job_id, 400, "Video processing not completed")
            ELSE IF job_data.output_path \notin files
              THEN HTTPException(job_id, 404, "Processed video file not found")
            ELSE FileResponse(job_id, job_data.output_path,
                              <<"captioned_", job_data.original_filename.stem.name, ".mp4">>)
    /\ UNCHANGED <<Jobs, files, pc, args, audio_filename, exc, escaped, log, segvars, capvars>>

\* The JobCreation record create_job builds for an upload at created_at.
JobCreation(job_id, video_filename, created_at) ==
    [ job_id            |-> job_id,
      status_id         |-> 1,
      progress          |-> 0,
      created_at        |-> created_at,
      input_path        |-> InputPath(job_id, video_filename),
      output_path       |-> OutputPath(job_id),
      original_filename |-> video_filename ]

\* How far the task of a job got before the server stopped: the last write it
\* made to the job's row.
Checkpoints ==
    {"created", "queued", "extracted", "transcribed", "segmented", "completed", "failed"}

\* The table after job_id's task has made its writes up to the checkpoint.
StoreAt(tbl, job_id, checkpoint) ==
    CASE checkpoint = "created"     -> tbl
      [] checkpoint = "queued"      -> update_job_status_db(tbl, job_id, NotStarted, 10)
      [] checkpoint = "extracted"   -> update_job_status_db(tbl, job_id, Processing, 25)
      [] checkpoint = "transcribed" -> update_job_status_db(tbl, job_id, Processing, 50)
      [] checkpoint = "segmented"   -> update_job_status_db(tbl, job_id, Processing, 65)
      [] checkpoint = "completed"   -> update_job_completed_db(tbl, job_id)
      [] checkpoint = "failed"      ->
             update_job_failed_db(tbl, job_id, FailedMessage(Raise("StageError", "stage error")))

\* The store and TEMP_DIR as earlier runs of the server left them: each job id
\* is unknown or has its row at some checkpoint, and the output file of a job
\* whose rendering was reached exists or has been cleared away.  No task runs.
InitDownload ==
    /\ \E made \in [JobIds -> Checkpoints \cup {"none"}] :
       \E named \in [JobIds -> VideoFilenames] :
       \E stamped \in [JobIds -> {DatetimeNow, DatetimeNowWholeSecond}] :
       \E kept \in SUBSET {j \in JobIds : made[j] \in {"segmented", "completed", "failed"}} :
           /\ Jobs = UNION { StoreAt(create_job_db({}, JobCreation(j, named[j], stamped[j])),
                                     j, made[j])
                               : j \in {k \in JobIds : made[k] # "none"} }
           /\ files = {OutputPath(j) : j \in kept}
    /\ PipelineIdle
    /\ RoutesIdle
    /\ SegmentIdle
    /\ CaptionIdle

NextDownload == \E job_id \in JobIds : download_job(job_id)

SpecDownload == InitDownload /\ [][NextDownload]_vars

\* ------------------------------------------------------------------ the status route

\* The Status table: Status_Name of a Status_ID.
StatusName(status_id) ==
    CASE status_id = 1 -> "Not Started"
      [] status_id = 2 -> "Processing"
      [] status_id = 3 -> "Completed"
      [] status_id = 4 -> "Failed"

NoJobStatus ==
    [job_id |-> 0, status_name |-> "", status_id |-> 0, progress |-> 0,
     created_at |-> "", completed_at |-> "", download_url |-> <<>>]

\* get_job_status_db: None when no row has the id, else the JobStatus built
\* from the columns the SELECT names (Job_ID, Status_Name, Status_ID,
\* Progress, Created_At, Completed_At, Download_URL); the two strptime calls
\* are outside the try block.
get_job_status_db(tbl, job_id) ==
    IF ~HasRow(tbl, job_id)
      THEN [kind |-> "None", job_status |-> NoJobStatus]
    ELSE LET row == RowOf(tbl, job_id)
         IN IF StrptimeRaises(row.Created_At) \/ StrptimeRaises(row.Completed_At)
              THEN [kind |-> "ValueError", job_status |-> NoJobStatus]
            ELSE [kind |-> "JobStatus",
                  job_status |-> [job_id       |-> row.Job_ID,
                                  status_name  |-> StatusName(row.Status_ID),
                                  status_id    |-> row.Status_ID,
                                  progress     |-> row.Progress,
                                  created_at   |-> row.Created_At,
                                  completed_at |-> row.Completed_At,
                                  download_url |-> row.Download_URL]]

\* return get_job_status_db(job_id)
pull_job_status(tbl, job_id) == get_job_status_db(tbl, job_id)

\* The 200 answer of get_job_status: the JobStatus as the response body.
JobStatusResponse(job_id, job_status) ==
    [job_id |-> job_id, status_code |-> 200, detail |-> "",
     path |-> NoPath, filename |-> <<>>, body |-> job_status]

\* GET /jobs/{job_id}/status.  An exception of the read (ValueError) is
\* answered 500 by the framework.
get_job_status(job_id) ==
    /\ LET job_data == pull_job_status(Jobs, job_id)
       IN response' =
            IF job_data.kind = "ValueError"
              THEN HTTPException(job_id, 500, "Internal Server Error")
            ELSE IF job_data.kind = "None"
              THEN HTTPException(job_id, 404, "Job not found")
            ELSE JobStatusResponse(job_id, job_data.job_status)
    /\ UNCHANGED <<Jobs, files, pc, args, audio_filename, exc, escaped, log, segvars, capvars>>

NextStatus == \E job_id \in JobIds : get_job_status(job_id)

\* Status queries on the stores earlier runs of the server left.
SpecStatus == InitDownload /\ [][NextStatus]_vars

\* ------------------------------------------------------------------ the store's writes, called on any row

\* The (status_id, progress) pairs update_job_status_db is called with.
CheckpointWrites ==
    {<<NotStarted, 10>>, <<Processing, 25>>, <<Processing, 50>>, <<Processing, 65>>}

\* update_job_status_db(job_id, status_id, progress) called whatever the
\* row's status; with (NotStarted, 10) it is the first statement of a further
\* invocation of background_video_processing for job_id.
call_update_job_status_db(job_id, status_id, progress) ==
    /\ Jobs' = update_job_status_db(Jobs, job_id, status_id, progress)
    /\ UNCHANGED <<files, pc, args, audio_filename, exc, escaped, log, response, segvars, capvars>>

\* update_job_completed_db(job_id) called whatever the row's status.
call_update_job_completed_db(job_id) ==
    /\ Jobs' = update_job_completed_db(Jobs, job_id)
    /\ UNCHANGED <<files, pc, args, audio_filename, exc, escaped, log, response, segvars, capvars>>

\* update_job_failed_db(job_id, failed_message) called whatever the row's status.
call_update_job_failed_db(job_id, failed_message) ==
    /\ Jobs' = update_job_failed_db(Jobs, job_id, failed_message)
    /\ UNCHANGED <<files, pc, args, audio_filename, exc, escaped, log, response, segvars, capvars>>

\* The store as earlier runs left it: each job id is unknown or has its row at
\* some checkpoint.
InitStoreWrites ==
    /\ \E made \in [JobIds -> Checkpoints \cup {"none"}] :
           Jobs = UNION { StoreAt(create_job_db({}, JobCreation(j, CHOOSE n \in VideoFilenames : TRUE,
                                                                DatetimeNow)),
                                  j, made[j])
                            : j \in {k \in JobIds : made[k] # "none"} }
    /\ files = {}
    /\ PipelineIdle
    /\ RoutesIdle
    /\ SegmentIdle
    /\ CaptionIdle

NextStoreWrites ==
    \E job_id \in JobIds :
        \/ \E w \in CheckpointWrites : call_update_job_status_db(job_id, w[1], w[2])
        \/ call_update_job_completed_db(job_id)
        \/ call_update_job_failed_db(job_id, FailedMessage(Raise("StageError", "stage error")))

SpecStoreWrites == InitStoreWrites /\ [][NextStoreWrites]_vars

\* ------------------------------------------------------------------ floats

\* The precision of a float, in significant bits (53 in a Python float): a
\* number that needs more is rounded to the nearest one that fits, ties to even.
FloatBits == 5

RECURSIVE BitLength(_)
BitLength(n) == IF n = 0 THEN 0 ELSE 1 + BitLength(n \div 2)
RECURSIVE Pow2(_)
Pow2(k) == IF k = 0 THEN 1 ELSE 2 * Pow2(k - 1)

\* Times are counted in ticks, the finest step a float of the run has.
RoundNat(n) ==
    IF BitLength(n) <= FloatBits THEN n
    ELSE LET q  == Pow2(BitLength(n) - FloatBits)
             lo == (n \div q) * q
             r  == n - lo
         IN IF 2 * r < q THEN lo
            ELSE IF 2 * r > q THEN lo + q
            ELSE IF (lo \div q) % 2 = 0 THEN lo ELSE lo + q
Round(x) == IF x < 0 THEN 0 - RoundNat(0 - x) ELSE RoundNat(x)

\* a - b and a + b on floats
FloatSub(a, b) == Round(a - b)
FloatAdd(a, b) == Round(a + b)

\* ------------------------------------------------------------------ _run_combine_words

\* The whitespace str.strip() removes (of the characters used here).
Whitespace == {" "}

RECURSIVE lstrip(_)
lstrip(s) == IF s # <<>> /\ Head(s) \in Whitespace THEN lstrip(Tail(s)) ELSE s
RECURSIVE rstrip(_)
rstrip(s) ==
    IF s # <<>> /\ s[Len(s)] \in Whitespace THEN rstrip(SubSeq(s, 1, Len(s) - 1)) ELSE s

\* A strip() that removes nothing.
strip_nothing(s) == s

\* str.strip(): a text is the sequence of its characters.
strip(s) == rstrip(lstrip(s))

\* start=None, end=None of a fresh LineInfo (times are never negative).
None == 0 - 1

\* LineInfo(start=None, end=None, duration=0.0, line="").  The field words is
\* bookkeeping of the model: the positions in data of the words added to the
\* line, which the LineInfo of the code does not keep.
EmptyLine == [start |-> None, end |-> None, duration |-> 0, line |-> <<>>, words |-> <<>>]

\* The test of line 277 without its triggers: the accumulator is closed at
\* every word once it has text.
flush_whenever_text(words, chars_limit, duration_limit, gap_limit, i, current_line) ==
    current_line.line # <<>>

\* The test of line 277 with max_chars_hit left out.
flush_without_chars(words, chars_limit, duration_limit, gap_limit, i, current_line) ==
    LET word_duration == FloatSub(words[i].end, words[i].start)
        gap           == IF i > 1 THEN FloatSub(words[i].start, words[i - 1].end) ELSE 0
        max_time_hit  == FloatAdd(current_line.duration, word_duration) > duration_limit
        max_gap_hit   == gap > gap_limit
    IN /\ current_line.line # <<>>
       /\ (max_time_hit \/ max_gap_hit)

\* Lines 262-277 for the word at position i (counted from 1): the three
\* triggers, and whether the accumulator is closed before the word is added:
\* `if current_line.line and (max_time_hit or max_chars_hit or max_gap_hit)`.
flush(words, chars_limit, duration_limit, gap_limit, i, current_line) ==
    LET word_text     == words[i].word
        word_start    == words[i].start
        word_end      == words[i].end
        word_duration == FloatSub(word_end, word_start)
        gap           == IF i > 1 THEN FloatSub(word_start, words[i - 1].end) ELSE 0
        max_time_hit  == FloatAdd(current_line.duration, word_duration) > duration_limit
        max_chars_hit == Len(current_line.line) + Len(word_text) >= chars_limit
        max_gap_hit   == gap > gap_limit
    IN /\ current_line.line # <<>>
       /\ (max_time_hit \/ max_chars_hit \/ max_gap_hit)

\* Lines 289-294 with the duration taken as the span from the line's start to
\* the word's end.
add_word_span(words, i, current_line) ==
    LET start == IF current_line.start = None THEN words[i].start ELSE current_line.start
    IN [ start    |-> start,
         end      |-> words[i].end,
         duration |-> FloatSub(words[i].end, start),
         line     |-> current_line.line \o words[i].word,
         words    |-> Append(current_line.words, i) ]

\* Lines 289-294 without the `is None` test: every word sets the start.
add_word_restarts(words, i, current_line) ==
    [ start    |-> words[i].start,
      end      |-> words[i].end,
      duration |-> FloatAdd(current_line.duration, FloatSub(words[i].end, words[i].start)),
      line     |-> current_line.line \o words[i].word,
      words    |-> Append(current_line.words, i) ]

\* Lines 289-294: the word at position i is added to the accumulator.
add_word(words, i, current_line) ==
    [ start    |-> IF current_line.start = None THEN words[i].start ELSE current_line.start,
      end      |-> words[i].end,
      duration |-> FloatAdd(current_line.duration, FloatSub(words[i].end, words[i].start)),
      line     |-> current_line.line \o words[i].word,
      words    |-> Append(current_line.words, i) ]

\* One pass of `for i, word_data in enumerate(data)`: the accumulator is
\* closed (trimmed, appended, replaced by an empty one) when flush says so,
\* then the word is added.
combine_word(words, chars_limit, duration_limit, gap_limit, i, st) ==
    IF flush(words, chars_limit, duration_limit, gap_limit, i, st.current_line)
      THEN [ subtitle_lines |-> Append(st.subtitle_lines,
                                       [st.current_line EXCEPT !.line = strip(@)]),
             current_line   |-> add_word(words, i, EmptyLine) ]
      ELSE [ subtitle_lines |-> st.subtitle_lines,
             current_line   |-> add_word(words, i, st.current_line) ]

\* The passes of the for loop from position i on.
RECURSIVE combine_from(_, _, _, _, _, _)
combine_from(words, chars_limit, duration_limit, gap_limit, i, st) ==
    IF i > Len(words) THEN st
    ELSE combine_from(words, chars_limit, duration_limit, gap_limit, i + 1,
                      combine_word(words, chars_limit, duration_limit, gap_limit, i, st))

\* The accumulator appended after the loop whatever it holds.
last_line_always(st) ==
    Append(st.subtitle_lines, [st.current_line EXCEPT !.line = strip(@)])

\* `if current_line.line:` after the loop: the accumulator is appended when
\* its text is not empty.
last_line(st) ==
    IF st.current_line.line # <<>>
      THEN Append(st.subtitle_lines, [st.current_line EXCEPT !.line = strip(@)])
      ELSE st.subtitle_lines

_run_combine_words(words, chars_limit, duration_limit, gap_limit) ==
    last_line(combine_from(words, chars_limit, duration_limit, gap_limit, 1,
                           [subtitle_lines |-> <<>>, current_line |-> EmptyLine]))

\* _combine_words: the call of _run_combine_words in the thread pool, awaited.
_combine_words ==
    /\ ~returned
    /\ subtitle_lines' = _run_combine_words(data, max_chars, max_duration, max_gap)
    /\ returned' = TRUE
    /\ UNCHANGED <<data, max_chars, max_duration, max_gap>>
    /\ UNCHANGED <<Jobs, files, pc, args, audio_filename, exc, escaped, log, response, capvars>>

\* The longest word list drawn, and the latest time of a drawn word.
MaxWords == 2
MaxTime == 1

\* Word texts: none, a letter, a letter after a space (as Whisper gives its
\* words), a space alone.
Texts == {<<>>, <<"a">>, <<" ", "b">>, <<" ">>}

\* WordInfo(start, end, word), with start <= end; the words of a list come in
\* any order, so that they may overlap.
WordInfos == {w \in [start : 0..MaxTime, end : 0..MaxTime, word : Texts] : w.start <= w.end}
WordLists == UNION {[1..n -> WordInfos] : n \in 0..MaxWords}

\* The calls drawn: every word list up to MaxWords with tight and loose limits.
DrawnCalls ==
    [data : WordLists, max_chars : {1, 3}, max_duration : {0, MaxTime}, max_gap : {0, MaxTime}]

\* "Hello ", "world ", "today" at 0.0-0.4, 0.5-0.9, 3.0-3.4 (a tick is 0.1 s).
HelloWorldToday ==
    << [start |-> 0,  end |-> 4,  word |-> <<"H", "e", "l", "l", "o", " ">>],
       [start |-> 5,  end |-> 9,  word |-> <<"w", "o", "r", "l", "d", " ">>],
       [start |-> 30, end |-> 34, word |-> <<"t", "o", "d", "a", "y">>] >>

\* Two words back to back whose durations add up to a number that needs one bit
\* more than a float has (as 0.94-1.89, 1.89-4.39 do in Python).
BackToBack ==
    << [start |-> 0, end |-> 3, word |-> <<"a">>],
       [start |-> 3, end |-> Pow2(FloatBits) + 6, word |-> <<" ", "b">>] >>

\* HelloWorldToday with max_chars=30 and with max_chars=5 (max_duration=2.5,
\* max_gap=1.5), and BackToBack with a max_duration that keeps its two words
\* in one line.
ExampleCalls ==
    { [data |-> HelloWorldToday, max_chars |-> 30, max_duration |-> 25, max_gap |-> 15],
      [data |-> HelloWorldToday, max_chars |-> 5, max_duration |-> 25, max_gap |-> 15],
      [data |-> BackToBack, max_chars |-> 30, max_duration |-> Pow2(FloatBits + 2),
       max_gap |-> 15] }

\* A call of _combine_words is about to be made.
InitSegment ==
    /\ \E call \in DrawnCalls \cup ExampleCalls :
           /\ data = call.data
           /\ max_chars = call.max_chars
           /\ max_duration = call.max_duration
           /\ max_gap = call.max_gap
    /\ returned = FALSE
    /\ subtitle_lines = <<>>
    /\ Jobs = {}
    /\ files = {}
    /\ PipelineIdle
    /\ RoutesIdle
    /\ CaptionIdle

NextSegment == _combine_words

SpecSegment == InitSegment /\ [][NextSegment]_vars

\* ------------------------------------------------------------------ caption layers

\* A TextClip after set_start and set_duration: which layer it is (the caption
\* itself, or its blurred black shadow), its text and its timing.
TextClip(layer, text, start, duration) ==
    [layer |-> layer, text |-> text, start |-> start, duration |-> duration]

\* TextClip(text, ..., color='black').set_start(start).set_duration(duration)
_add_shadow_caption(text, start, duration) == TextClip("shadow", text, start, duration)

\* _create_caption_clip: the layers of one line, the shadow (when asked for)
\* before the caption, each from the line's start for end - start.
_create_caption_clip(caption_line_data, with_shadow) ==
    LET full_duration == FloatSub(caption_line_data.end, caption_line_data.start)
        caption_clip  == TextClip("caption", caption_line_data.line,
                                  caption_line_data.start, full_duration)
        shadow_clip   == _add_shadow_caption(caption_line_data.line,
                                             caption_line_data.start, full_duration)
    IN IF with_shadow THEN <<shadow_clip, caption_clip>> ELSE <<caption_clip>>

\* `for i in range(len(caption_clip))`: layer i of the line joins group i, a
\* new group being opened when there is none yet.
add_to_groups(final_caption_clips, caption_clip) ==
    [i \in 1..(IF Len(caption_clip) > Len(final_caption_clips)
                 THEN Len(caption_clip) ELSE Len(final_caption_clips)) |->
        IF i > Len(final_caption_clips) THEN <<caption_clip[i]>>
        ELSE IF i <= Len(caption_clip) THEN Append(final_caption_clips[i], caption_clip[i])
        ELSE final_caption_clips[i]]

\* `for caption in caption_data` from position k on.
RECURSIVE create_caption_from(_, _, _, _)
create_caption_from(caption_data, with_shadow, k, final_caption_clips) ==
    IF k > Len(caption_data) THEN final_caption_clips
    ELSE create_caption_from(caption_data, with_shadow, k + 1,
             add_to_groups(final_caption_clips,
                           _create_caption_clip(caption_data[k], with_shadow)))

\* _create_caption with one group per line: final_caption_clips.append(caption_clip).
_create_caption_group_per_line(caption_data, with_shadow) ==
    [k \in 1..Len(caption_data) |-> _create_caption_clip(caption_data[k], with_shadow)]

\* _create_caption: the groups of layers of all lines.
_create_caption(caption_data, with_shadow) ==
    create_caption_from(caption_data, with_shadow, 1, <<>>)

\* list(chain.from_iterable(layers))
RECURSIVE chain_from_iterable(_)
chain_from_iterable(layers) ==
    IF layers = <<>> THEN <<>> ELSE Head(layers) \o chain_from_iterable(Tail(layers))

\* generate_subtitles, lines 102-103: the layers of the lines _combine_words
\* returned, flattened for the renderer.
create_layers(with_shadow) ==
    /\ returned
    /\ ~captioned
    /\ shadow' = with_shadow
    /\ all_clips' = chain_from_iterable(_create_caption(subtitle_lines, with_shadow))
    /\ captioned' = TRUE
    /\ UNCHANGED <<Jobs, files, pc, args, audio_filename, exc, escaped, log, response, segvars>>

NextCaption ==
    \/ _combine_words
    \/ \E with_shadow \in BOOLEAN : create_layers(with_shadow)

\* Segmentation followed by the building of the caption layers.
SpecCaption == InitSegment /\ [][NextCaption]_vars

\* ------------------------------------------------------------------ reading the state

Row(j) == RowOf(Jobs, j)
IsWrite(e) == e.ev = "write"
WritesOf(l) == SelectSeq(l, IsWrite)
TerminalStatus(status_id) == status_id \in {Completed, Failed}

\* Some stage of job j has failed (returned no path, or raised).
StageFailed(j) == \E i \in 1..Len(log[j]) : log[j][i].ev = "ret" /\ ~log[j][i].ok

\* ------------------------------------------------------------------ claims

\* C1: once a job's row has status Completed or Failed, no later step of the
\* execution writes it: the whole row (status, progress, download URL, failure
\* message, completed_at) stays as it is and no further write is issued.
C1_TerminalRowNeverWritten ==
    [][\A j \in JobIds :
          (HasRow(Jobs, j) /\ TerminalStatus(RowOf(Jobs, j).Status_ID))
             => /\ HasRow(Jobs', j)
                /\ RowOf(Jobs', j) = RowOf(Jobs, j)
                /\ WritesOf(log'[j]) = WritesOf(log[j])]_vars

\* C1 witness: one job has finished Completed and another finished Failed, the
\* first with the deletion of its input having failed after the terminal write.
C1_Witness ==
    \E j, k \in JobIds :
        /\ pc[j] = "done" /\ Row(j).Status_ID = Completed /\ escaped[j] = "OSError"
        /\ pc[k] = "done" /\ Row(k).Status_ID = Failed

\* C2: if any stage of a job fails (extraction returns no path or raises,
\* transcription, segmentation or rendering raises), Completed is never written
\* for the job and the job ends Failed with progress 0 and a non-empty
\* failure message.
C2_StageFailureEndsFailed ==
    \A j \in JobIds :
        StageFailed(j) =>
            /\ \A i \in 1..Len(log[j]) :
                   log[j][i].ev = "write" => log[j][i].status # Completed
            /\ HasRow(Jobs, j) /\ Row(j).Status_ID # Completed
            /\ pc[j] = "done" =>
                   /\ Row(j).Status_ID = Failed
                   /\ Row(j).Progress = 0
                   /\ Len(Row(j).Failed_Message) > 0

\* C2 witness: a job whose stage raised an exception with an empty str(e) has
\* finished, Failed, with the message "Error: ".
C2_Witness ==
    \E j \in JobIds :
        /\ pc[j] = "done" /\ StageFailed(j)
        /\ Row(j).Status_ID = Failed /\ Row(j).Failed_Message = "Error: "

\* C3: after a stage of a job fails, no stage is invoked (neither a later one
\* nor the failed one again), no checkpoint is written, and the one write that
\* follows is the transition to Failed.
C3_FailureShortCircuits ==
    \A j \in JobIds : \A i \in 1..Len(log[j]) :
        (log[j][i].ev = "ret" /\ ~log[j][i].ok) =>
            LET after == (i + 1)..Len(log[j])
                writesAfter == {k \in after : log[j][k].ev = "write"}
            IN /\ pc[j] \in {"except", "finally", "done"}
               /\ \A k \in after : log[j][k].ev \notin {"call", "ret"}
               /\ \A k \in writesAfter :
                      log[j][k].status = Failed /\ log[j][k].progress = 0
               /\ Cardinality(writesAfter) <= 1
               /\ pc[j] \in {"finally", "done"} => Cardinality(writesAfter) = 1

\* C3 witness: a job whose transcription failed after the checkpoint 25 has
\* finished, and its last write is the transition to Failed.
C3_Witness ==
    \E j \in JobIds :
        /\ pc[j] = "done"
        /\ \E i \in 1..Len(log[j]) :
               log[j][i].ev = "ret" /\ log[j][i].stage = "transcribe" /\ ~log[j][i].ok
        /\ WritesOf(log[j]) =
               <<WriteEv(NotStarted, 10), WriteEv(Processing, 25), WriteEv(Failed, 0)>>

\* The calls, returns and writes of a job all of whose stages succeed.
ExpectedPipeline ==
    << WriteEv(NotStarted, 10),
       CallEv("extract"),    RetEv("extract", TRUE, ""),    WriteEv(Processing, 25),
       CallEv("transcribe"), RetEv("transcribe", TRUE, ""), WriteEv(Processing, 50),
       CallEv("segment"),    RetEv("segment", TRUE, ""),    WriteEv(Processing, 65),
       CallEv("render"),     RetEv("render", TRUE, ""),     WriteEv(Completed, 100) >>

IsPipelineEv(e) == e.ev \in {"write", "call", "ret"}
PipelineOf(l) == SelectSeq(l, IsPipelineEv)
IsPrefix(a, b) == Len(a) <= Len(b) /\ a = SubSeq(b, 1, Len(a))

\* C4 (as claimed): when every stage of a job succeeds, its writes are exactly
\* (NotStarted, 10), (Processing, 25), (Processing, 50), (Processing, 65),
\* (Completed, 100), each checkpoint after its stage has returned and before
\* the next stage is called.
C4_SuccessWritesExactly ==
    \A j \in JobIds :
        ~StageFailed(j) =>
            /\ IsPrefix(PipelineOf(log[j]), ExpectedPipeline)
            /\ pc[j] = "done" => PipelineOf(log[j]) = ExpectedPipeline

\* C5: in every state of every row, status Completed, progress 100, a
\* non-empty download URL and a completed_at other than the sentinel hold
\* together or not at all (the write to Completed sets the four at once).
C5_CompletedFieldsTogether ==
    \A r \in Jobs :
        LET completed == r.Status_ID = Completed
            full      == r.Progress = 100
            url       == r.Download_URL # <<>>
            stamped   == r.Completed_At # SentinelDatetime
        IN (completed <=> full) /\ (full <=> url) /\ (url <=> stamped)

\* C5 witness: one row is Completed with its download URL while another row
\* is at a checkpoint of Processing.
C5_Witness ==
    \E r, q \in Jobs :
        /\ r.Status_ID = Completed /\ r.Progress = 100
        /\ r.Download_URL = <<"/jobs/", r.Job_ID, "/download">>
        /\ r.Completed_At = DatetimeNow
        /\ q.Status_ID = Processing /\ q.Progress = 50 /\ q.Download_URL = <<>>

\* The upload has been saved and job j's task is queued or running or over.
Uploaded(j) == pc[j] \notin {"idle", "save_upload"}
InputRemoveFailed(j) ==
    \E i \in 1..Len(log[j]) :
        log[j][i].ev = "remove" /\ log[j][i].stage = "input" /\ ~log[j][i].ok

\* The input file is not deleted before the terminal status is written.
InputKeptUntilTerminal ==
    \A j \in JobIds :
        (Uploaded(j) /\ ~TerminalStatus(Row(j).Status_ID)) => args[j].input_path \in files

C7_AudioCleanedUp ==
    \A j \in JobIds :
        (pc[j] = "done" /\ TerminalStatus(Row(j).Status_ID) /\ audio_filename[j] # NoPath)
            => audio_filename[j] \notin files

RenderReturned(j) ==
    \E i \in 1..Len(log[j]) : log[j][i].ev = "ret" /\ log[j][i].stage = "render" /\ log[j][i].ok

\* C8 (as claimed): a failed deletion of the audio or of the input file is
\* swallowed: no exception leaves background_video_processing, and a job whose
\* rendering finished ends Completed.
C8_CleanupFailureSwallowed ==
    \A j \in JobIds :
        /\ escaped[j] = ""
        /\ (pc[j] = "done" /\ RenderReturned(j)) => Row(j).Status_ID = Completed

\* C9: every exception raised by a stage is caught inside
\* background_video_processing and becomes the job's Failed status; none
\* leaves the task.
C9_StageExceptionsCaught ==
    \A j \in JobIds :
        /\ escaped[j] \notin {"ValueError", "StageError"}
        /\ (StageFailed(j) /\ pc[j] \in {"finally", "done"}) =>
               /\ ~exc[j].raised
               /\ Row(j).Status_ID = Failed

\* C9 witness: a stage raised (not the ValueError of a missing audio path), the
\* job has finished Failed with that exception's message, and nothing escaped.
C9_Witness ==
    \E j \in JobIds :
        /\ pc[j] = "done" /\ escaped[j] = ""
        /\ Row(j).Status_ID = Failed /\ Row(j).Failed_Message = "Error: stage error"

\* The fields of a row that the pipeline writes.
Written(r) ==
    [ Status_ID |-> r.Status_ID, Progress |-> r.Progress,
      Completed_At |-> r.Completed_At, Download_URL |-> r.Download_URL,
      Failed_Message |-> r.Failed_Message ]

\* What job j's row holds when j runs alone and takes the steps of log l: the
\* row as created, then each write of l applied to it in order.  acc.err is
\* str(e) of the last failure before the write.
RECURSIVE Alone(_, _, _)
Alone(j, l, acc) ==
    IF l = <<>> THEN acc.row
    ELSE LET e == Head(l)
             row == acc.row
             next ==
               IF e.ev = "write" /\ e.status = Completed
                 THEN [acc EXCEPT !.row = [row EXCEPT !.Status_ID = Completed,
                                                     !.Progress = 100,
                                                     !.Completed_At = DatetimeNow,
                                                     !.Download_URL = <<"/jobs/", j, "/download">>]]
               ELSE IF e.ev = "write" /\ e.status = Failed
                 THEN [acc EXCEPT !.row = [row EXCEPT !.Status_ID = Failed,
                                                     !.Progress = 0,
                                                     !.Failed_Message = "Error: " \o acc.err]]
               ELSE IF e.ev = "write"
                 THEN [acc EXCEPT !.row = [row EXCEPT !.Status_ID = e.status,
                                                     !.Progress = e.progress]]
               ELSE IF ~e.ok THEN [acc EXCEPT !.err = e.text]
               ELSE acc
         IN Alone(j, Tail(l), next)

CreatedRow ==
    [ Status_ID |-> NotStarted, Progress |-> 0, Completed_At |-> SentinelDatetime,
      Download_URL |-> <<>>, Failed_Message |-> "" ]

FilesOfJob(fs, j) == {p \in fs : PathOwner(p) = j}

\* C10: under every interleaving of two jobs with distinct ids, a step of one
\* job leaves the other job's row and files (input, audio, output) as they
\* are, and each job's row is at every moment, hence at its end, what the job's
\* own steps make of it when it runs alone; a failure of one job changes no
\* other row.
C10_JobsIsolated ==
    /\ [][\A j \in JobIds :
             pc'[j] = pc[j] =>
                 /\ HasRow(Jobs', j) = HasRow(Jobs, j)
                 /\ HasRow(Jobs, j) => RowOf(Jobs', j) = RowOf(Jobs, j)
                 /\ FilesOfJob(files', j) = FilesOfJob(files, j)]_vars
    /\ [](\A j \in JobIds :
             HasRow(Jobs, j) =>
                 /\ Written(Row(j)) = Alone(j, log[j], [row |-> CreatedRow, err |-> ""])
                 /\ Row(j).Input_Path = args[j].input_path
                 /\ Row(j).Output_Path = args[j].output_path
                 /\ PathOwner(args[j].input_path) = j
                 /\ PathOwner(args[j].output_path) = j
                 /\ PathOwner(AudioFilePath(args[j].input_path)) = j)
    /\ [](\A p \in files : PathOwner(p) \in JobIds)

\* C10 witness: two jobs are in flight at once: one has just been marked Failed
\* and is about to run its finally block while the other, at checkpoint 65, is
\* rendering.
C10_Witness ==
    \E j, k \in JobIds :
        /\ j # k
        /\ pc[j] = "render_run" /\ Row(j).Status_ID = Processing /\ Row(j).Progress = 65
        /\ pc[k] = "finally" /\ Row(k).Status_ID = Failed

\* The stages of generate_subtitles, in the order of its awaits.
StageOrder == <<"extract", "transcribe", "segment", "render">>
IsStageEv(e) == e.ev \in {"call", "ret"}
StageEvs(l) == SelectSeq(l, IsStageEv)
\* The stage of job j that has been called and has not returned, if any.
InProgress(j) ==
    {StageOrder[k] : k \in {k \in 1..4 : pc[j] = StageOrder[k] \o "_run"}}

\* C11: within one job the stages run in the order extraction, transcription,
\* segmentation, rendering; a stage is called only after the stage before it
\* has returned successfully (the audio file is on disk before transcription
\* is called), and at most one stage of a job is in progress at a time.
C11_StagesSequential ==
    \A j \in JobIds :
        LET s == StageEvs(log[j])
            calls == {i \in 1..Len(s) : s[i].ev = "call"}
            rets  == {i \in 1..Len(s) : s[i].ev = "ret"}
        IN /\ Len(s) <= 8
           /\ \A i \in 1..Len(s) :
                  /\ s[i].stage = StageOrder[(i + 1) \div 2]
                  /\ s[i].ev = IF i % 2 = 1 THEN "call" ELSE "ret"
                  /\ (i % 2 = 1 /\ i > 1) => s[i - 1].ok
           /\ Cardinality(calls) - Cardinality(rets) = Cardinality(InProgress(j))
           /\ Cardinality(InProgress(j)) <= 1
           /\ InProgress(j) # {} => InProgress(j) = {s[Len(s)].stage}
           /\ pc[j] \in {"transcribe_call", "transcribe_run"} =>
                  /\ audio_filename[j] # NoPath
                  /\ audio_filename[j] \in files

\* C11 witness: a job's rendering is in progress, its three earlier stages
\* having been called and having returned one after the other.
C11_Witness ==
    \E j \in JobIds :
        /\ pc[j] = "render_run"
        /\ Len(StageEvs(log[j])) = 7
        /\ InProgress(j) = {"render"}

\* C12: download_job answers with the output file only when the job's row
\* has status 3 (Completed) and progress 100 and a file exists at the row's
\* output_path; for an unknown id, a job that is NotStarted, Processing or
\* Failed, or a missing output file, it answers with an error; and it changes
\* neither the row nor any file.
C12_DownloadOnlyCompleted ==
    /\ [](response # NoResponse =>
            LET known == HasRow(Jobs, response.job_id)
                row   == RowOf(Jobs, response.job_id)
                ready == /\ known
                         /\ row.Status_ID = Completed /\ row.Progress = 100
                         /\ row.Output_Path \in files
            IN /\ response.status_code = 200 =>
                      ready /\ response.path = row.Output_Path
               /\ ~ready => response.status_code \in {400, 404, 500}
               /\ ~known => response.status_code = 404
               /\ (known /\ row.Status_ID \in {NotStarted, Processing, Failed}) =>
                      response.status_code \in {400, 500})
    /\ [][Jobs' = Jobs /\ files' = files]_vars

\* C12 witness: the last download was answered with the file of a Completed
\* job, while another Completed job has lost its output file.
C12_Witness ==
    /\ response.status_code = 200
    /\ response.path \in files
    /\ \E r \in Jobs :
           /\ r.Job_ID # response.job_id
           /\ r.Status_ID = Completed /\ r.Output_Path \notin files

\* ------------------------------------------------------------------ claims on _run_combine_words

RECURSIVE Flatten(_)
Flatten(seqs) == IF seqs = <<>> THEN <<>> ELSE Head(seqs) \o Flatten(Tail(seqs))

\* The positions 1..n in order.
Positions(n) == [k \in 1..n |-> k]
\* The words of data a line was made of, and their texts joined, untrimmed.
WordsOf(l) == [k \in 1..Len(l.words) |-> data[l.words[k]]]
UntrimmedText(l) == Flatten([k \in 1..Len(l.words) |-> data[l.words[k]].word])
LineIndex == 1..Len(subtitle_lines)

\* C13 (as claimed): _run_combine_words is a pure repartition of its input:
\* the words of the output lines, taken line after line, are the input words
\* in order, each once (no word omitted, duplicated or reordered, the words of
\* a line contiguous), and each line's text is the trimmed concatenation of
\* the texts of its words, so that the untrimmed texts of the lines join to
\* the joined texts of the input words.
C13_PureRepartition ==
    returned =>
        /\ Flatten([n \in LineIndex |-> subtitle_lines[n].words]) = Positions(Len(data))
        /\ \A n \in LineIndex :
               subtitle_lines[n].line = strip(UntrimmedText(subtitle_lines[n]))
        /\ Flatten([n \in LineIndex |-> UntrimmedText(subtitle_lines[n])])
               = Flatten([k \in 1..Len(data) |-> data[k].word])

\* C14 (as claimed): for every non-empty word sequence, words with empty text
\* included, and every setting of the limits, at least one line is returned.
C14_NonEmptyGivesLine ==
    (returned /\ data # <<>>) => subtitle_lines # <<>>

\* C15 (as claimed): two adjacent input words whose gap (next.start minus
\* previous.end) is greater than max_gap are never in the same output line.
C15_GapSeparates ==
    returned =>
        \A i \in 2..Len(data) :
            FloatSub(data[i].start, data[i - 1].end) > max_gap =>
                ~\E n \in LineIndex :
                    \E a, b \in 1..Len(subtitle_lines[n].words) :
                        subtitle_lines[n].words[a] = i - 1 /\ subtitle_lines[n].words[b] = i

\* C16: for every output line except the last, with w the first word of
\* the following line, at least one trigger holds for w against the line:
\* line.duration + (w.end - w.start) > max_duration, or len(untrimmed text of
\* the line) + len(w.text) >= max_chars, or w.start minus the end of the word
\* before w > max_gap.  A line is never closed when no trigger fires.
C16_ClosedByTrigger ==
    returned =>
        \A n \in LineIndex :
            n < Len(subtitle_lines) =>
                LET l == subtitle_lines[n]
                    p == subtitle_lines[n + 1].words[1]
                    w == data[p]
                IN /\ p > 1
                   /\ \/ FloatAdd(l.duration, FloatSub(w.end, w.start)) > max_duration
                      \/ Len(UntrimmedText(l)) + Len(w.word) >= max_chars
                      \/ FloatSub(w.start, data[p - 1].end) > max_gap

\* C16 witness: two lines were returned, the first made of two words that no
\* trigger separated and closed by the third word.
C16_Witness ==
    /\ returned
    /\ Len(subtitle_lines) = 2
    /\ subtitle_lines[1].words = <<1, 2>>
    /\ subtitle_lines[2].words = <<3>>

\* C17 (as claimed): for a sequence of exactly one word w and every setting
\* of the limits, exactly one line is returned, with start = w.start,
\* end = w.end and text = w.text with leading and trailing whitespace removed.
C17_SingleWordOneLine ==
    (returned /\ Len(data) = 1) =>
        /\ Len(subtitle_lines) = 1
        /\ subtitle_lines[1].start = data[1].start
        /\ subtitle_lines[1].end = data[1].end
        /\ subtitle_lines[1].line = strip(data[1].word)

\* C18: for the empty word sequence and every setting of max_chars,
\* max_duration and max_gap, the empty line sequence is returned.
C18_EmptyGivesEmpty ==
    (returned /\ data = <<>>) => subtitle_lines = <<>>

\* C18 witness: the call with no words and the tightest limits has returned.
C18_Witness ==
    /\ returned
    /\ data = <<>>
    /\ max_chars = 1 /\ max_duration = 0 /\ max_gap = 0

\* 0.0 + d1 + d2 + ... on floats, in the order of the sequence.
RECURSIVE FloatSum(_, _)
FloatSum(acc, ds) ==
    IF ds = <<>> THEN acc ELSE FloatSum(FloatAdd(acc, Head(ds)), Tail(ds))
\* The same sum in exact arithmetic (no rounding).
RECURSIVE ExactSum(_)
ExactSum(ws) ==
    IF ws = <<>> THEN 0 ELSE (Head(ws).end - Head(ws).start) + ExactSum(Tail(ws))

WordDurations(l) ==
    [k \in 1..Len(l.words) |-> FloatSub(WordsOf(l)[k].end, WordsOf(l)[k].start)]
\* The words of a line are ordered and do not overlap; two of them are apart.
OrderedWords(l) ==
    \A k \in 2..Len(l.words) : WordsOf(l)[k - 1].end <= WordsOf(l)[k].start
InternalGap(l) ==
    \E k \in 2..Len(l.words) : WordsOf(l)[k - 1].end < WordsOf(l)[k].start

\* C19 (as claimed): every output line's duration is the sum of (end - start)
\* over the words placed in it, not line.end - line.start; when the words are
\* ordered and non-overlapping the duration is at most line.end - line.start,
\* and strictly smaller when the line has an internal gap.
C19_DurationAtMostSpan ==
    returned =>
        \A n \in LineIndex :
            LET l == subtitle_lines[n]
            IN /\ l.duration = FloatSum(0, WordDurations(l))
               /\ OrderedWords(l) =>
                      /\ l.duration <= l.end - l.start
                      /\ InternalGap(l) => l.duration < l.end - l.start

\* C19 (amended): every output line's duration is the float sum, in input
\* order, of (end - start) over the words placed in it, not line.end -
\* line.start; when the words are ordered and non-overlapping and that sum
\* carries no rounding error, the duration is at most line.end - line.start,
\* and strictly smaller when the line has an internal gap.
C19_DurationIsFloatSum ==
    returned =>
        \A n \in LineIndex :
            LET l == subtitle_lines[n]
            IN /\ l.duration = FloatSum(0, WordDurations(l))
               /\ (OrderedWords(l) /\ l.duration = ExactSum(WordsOf(l))) =>
                      /\ l.duration <= l.end - l.start
                      /\ InternalGap(l) => l.duration < l.end - l.start

\* C19 witness: a returned line of two ordered words 0.1 s apart has the
\* duration 0.8 s, the sum of its words' durations, while it spans 0.9 s.
C19_Witness ==
    /\ returned
    /\ \E n \in LineIndex :
           LET l == subtitle_lines[n]
           IN /\ Len(l.words) = 2 /\ OrderedWords(l) /\ InternalGap(l)
              /\ l.duration = 8 /\ l.end - l.start = 9

\* What the code's LineInfo shows of a line: start, end and text.
Shown(l) == [start |-> l.start, end |-> l.end, line |-> l.line]

\* C20: for the words (0.0, 0.4, "Hello "), (0.5, 0.9, "world "),
\* (3.0, 3.4, "today") with max_chars=30, max_duration=2.5, max_gap=1.5,
\* exactly two lines are returned: (start 0.0, end 0.9, text "Hello world")
\* and (start 3.0, end 3.4, text "today").
C20_HelloWorldTodayTwoLines ==
    (/\ returned
     /\ data = HelloWorldToday
     /\ max_chars = 30 /\ max_duration = 25 /\ max_gap = 15) =>
        /\ Len(subtitle_lines) = 2
        /\ Shown(subtitle_lines[1]) =
               [start |-> 0, end |-> 9,
                line |-> <<"H", "e", "l", "l", "o", " ", "w", "o", "r", "l", "d">>]
        /\ Shown(subtitle_lines[2]) =
               [start |-> 30, end |-> 34, line |-> <<"t", "o", "d", "a", "y">>]

\* C20 witness: the call with the three words and the default limits has
\* returned, the 2.1 s gap before "today" having closed the first line.
C20_Witness ==
    /\ returned
    /\ data = HelloWorldToday
    /\ max_chars = 30 /\ max_duration = 25 /\ max_gap = 15
    /\ FloatSub(data[3].start, data[2].end) = 21
    /\ Len(subtitle_lines) = 2

\* C21: for the words (0.0, 0.4, "Hello "), (0.5, 0.9, "world "),
\* (3.0, 3.4, "today") with max_chars=5, max_duration=2.5, max_gap=1.5, three
\* lines of one word each are returned, the second and the third word each
\* bringing the untrimmed length of the line before it to 5 or more.
C21_HelloWorldTodayThreeLines ==
    (/\ returned
     /\ data = HelloWorldToday
     /\ max_chars = 5 /\ max_duration = 25 /\ max_gap = 15) =>
        /\ Len(subtitle_lines) = 3
        /\ \A n \in 1..3 :
               /\ subtitle_lines[n].words = <<n>>
               /\ Shown(subtitle_lines[n]) =
                      [start |-> data[n].start, end |-> data[n].end,
                       line |-> strip(data[n].word)]
        /\ \A n \in 1..2 :
               Len(UntrimmedText(subtitle_lines[n])) + Len(data[n + 1].word) >= 5

\* C21 witness: the call with max_chars=5 has returned; "world " was not kept
\* out of the first line by its duration or by its gap.
C21_Witness ==
    /\ returned
    /\ data = HelloWorldToday
    /\ max_chars = 5 /\ max_duration = 25 /\ max_gap = 15
    /\ FloatSub(data[2].start, data[1].end) <= max_gap
    /\ Len(subtitle_lines) = 3

\* C22: a job is marked Completed only after the rendering has returned
\* successfully and written the file at output_path, and no later step
\* deletes the output file: whenever a row is Completed, at the end of the
\* execution in particular, the output file exists.
C22_CompletedHasOutput ==
    /\ [](\A j \in JobIds :
             (HasRow(Jobs, j) /\ Row(j).Status_ID = Completed) =>
                 /\ RenderReturned(j)
                 /\ Row(j).Output_Path = args[j].output_path
                 /\ args[j].output_path \in files)
    /\ [][\A j \in JobIds :
             (Uploaded(j) /\ args[j].output_path \in files) =>
                 args[j].output_path \in files']_vars

\* C22 witness: an execution has finished Completed, its input and audio
\* files deleted and its output file in place.
C22_Witness ==
    \E j \in JobIds :
        /\ pc[j] = "done" /\ Row(j).Status_ID = Completed
        /\ args[j].input_path \notin files /\ audio_filename[j] \notin files
        /\ args[j].output_path \in files

\* create_job has returned its job id and paths for upload j.
CreateJobReturned(j) == pc[j] # "idle"

\* C23 (as claimed): whenever create_job has returned a job id and paths, a
\* row for that id exists in the store; until the pipeline's first write for
\* the id, hence before the first stage runs, the row has status NotStarted,
\* progress 0, an empty download URL and an empty failure message.
C23_RecordExistsOnReturn ==
    \A j \in JobIds :
        CreateJobReturned(j) =>
            /\ HasRow(Jobs, j)
            /\ WritesOf(log[j]) = <<>> =>
                   /\ Written(Row(j)) = CreatedRow
                   /\ StageEvs(log[j]) = <<>>

\* C24: the progress a reader can observe of a job over time takes the
\* values 0, 10, 25, 50, 65, 100 and never decreases as long as the job is not
\* Failed; it decreases only in the one transition to Failed, which sets it
\* to 0.
C24_ProgressMonotone ==
    /\ [](\A r \in Jobs : r.Progress \in {0, 10, 25, 50, 65, 100})
    /\ [][\A j \in JobIds :
             (HasRow(Jobs, j) /\ HasRow(Jobs', j)) =>
                 LET old == RowOf(Jobs, j)
                     new == RowOf(Jobs', j)
                 IN /\ new.Status_ID # Failed => new.Progress >= old.Progress
                    /\ new.Progress < old.Progress =>
                           /\ old.Status_ID # Failed
                           /\ new.Status_ID = Failed
                           /\ new.Progress = 0
                    /\ old.Status_ID = Failed => new = old]_vars

\* C24 witness: a job that had reached progress 65 is Failed with progress 0.
C24_Witness ==
    \E j \in JobIds :
        /\ HasRow(Jobs, j)
        /\ Row(j).Status_ID = Failed /\ Row(j).Progress = 0
        /\ \E i \in 1..Len(log[j]) : log[j][i] = WriteEv(Processing, 65)

\* The messages update_job_failed_db is called with.
FailedMessages ==
    { FailedMessage(Raise(kind, text)) : kind \in {"StageError", "OSError"}, text \in ErrTexts }
    \cup {FailedMessage(Raise("StageError", "stage error"))}

\* C25: the status query for a job whose row is Failed is answered with a
\* projection that shows the Failed status and the failure message recorded
\* by update_job_failed_db: the answer is a JobStatus with status Failed, and
\* it is not the answer a row with any other recorded message would get.
C25_FailureVisible ==
    (response # NoResponse /\ HasRow(Jobs, response.job_id)
        /\ RowOf(Jobs, response.job_id).Status_ID = Failed) =>
        LET j   == response.job_id
            row == RowOf(Jobs, j)
        IN /\ response.status_code = 200
           /\ response.body.status_id = Failed
           /\ response.body.status_name = "Failed"
           /\ \A m \in FailedMessages \ {row.Failed_Message} :
                  pull_job_status(update_job_failed_db(Jobs, j, m), j).job_status
                      # response.body

\* C26 as stated: no store write moves a record out of a terminal state:
\* update_job_status_db, update_job_completed_db or update_job_failed_db
\* applied to a job whose status is already Completed or Failed leaves status
\* and progress unchanged.
C26_TerminalKeptByWrites ==
    [][\A j \in JobIds :
          (HasRow(Jobs, j) /\ TerminalStatus(Row(j).Status_ID)) =>
              /\ RowOf(Jobs', j).Status_ID = Row(j).Status_ID
              /\ RowOf(Jobs', j).Progress = Row(j).Progress]_vars

\* The rows of tbl other than job_id's.
OtherRows(tbl, job_id) == {r \in tbl : r.Job_ID # job_id}

\* C26, amended: the store's writes carry no status guard.  Applied to a row
\* in any status, Completed and Failed included, update_job_status_db sets
\* status and progress to its arguments, update_job_completed_db to
\* (Completed, 100) and update_job_failed_db to (Failed, 0); each leaves the
\* rows of other jobs as they are and adds no row for an unknown id.
C26_WritesUnguarded ==
    \A j \in JobIds :
        LET completed == update_job_completed_db(Jobs, j)
            failed    == update_job_failed_db(Jobs, j, "Error: ")
        IN /\ \A w \in CheckpointWrites :
                  LET tbl == update_job_status_db(Jobs, j, w[1], w[2])
                  IN /\ OtherRows(tbl, j) = OtherRows(Jobs, j)
                     /\ HasRow(tbl, j) = HasRow(Jobs, j)
                     /\ HasRow(Jobs, j) =>
                            /\ RowOf(tbl, j).Status_ID = w[1]
                            /\ RowOf(tbl, j).Progress = w[2]
           /\ OtherRows(completed, j) = OtherRows(Jobs, j)
           /\ OtherRows(failed, j) = OtherRows(Jobs, j)
           /\ HasRow(completed, j) = HasRow(Jobs, j)
           /\ HasRow(failed, j) = HasRow(Jobs, j)
           /\ HasRow(Jobs, j) =>
                  /\ RowOf(completed, j).Status_ID = Completed
                  /\ RowOf(completed, j).Progress = 100
                  /\ RowOf(failed, j).Status_ID = Failed
                  /\ RowOf(failed, j).Progress = 0

\* C26 witness: a row that was Completed (its download URL is set) and a row
\* that was Failed (its message is set) have been written back to
\* (NotStarted, 10) and (Processing, 65).
C26_Witness ==
    \E j, k \in JobIds :
        /\ HasRow(Jobs, j) /\ HasRow(Jobs, k)
        /\ Row(j).Download_URL # <<>>
        /\ Row(j).Status_ID = NotStarted /\ Row(j).Progress = 10
        /\ Row(k).Failed_Message # ""
        /\ Row(k).Status_ID = Processing /\ Row(k).Progress = 65

\* C27: a status reader running while a job's pipeline runs never observes a
\* partially written record: in every reachable state the pair (status,
\* progress) of a job's row is one of (NotStarted, 0), (NotStarted, 10),
\* (Processing, 25), (Processing, 50), (Processing, 65), (Completed, 100),
\* (Failed, 0).
C27_StatusProgressPairs ==
    \A r \in Jobs :
        <<r.Status_ID, r.Progress>> \in
            {<<NotStarted, 0>>, <<NotStarted, 10>>, <<Processing, 25>>, <<Processing, 50>>,
             <<Processing, 65>>, <<Completed, 100>>, <<Failed, 0>>}

\* C27 witness: while one job's segmentation runs (its row at (Processing,
\* 50)), another job has failed after reaching progress 65.
C27_Witness ==
    \E j, k \in JobIds :
        /\ HasRow(Jobs, j) /\ HasRow(Jobs, k)
        /\ InProgress(j) = {"segment"}
        /\ Row(j).Status_ID = Processing /\ Row(j).Progress = 50
        /\ Row(k).Status_ID = Failed /\ Row(k).Progress = 0
        /\ \E i \in 1..Len(log[k]) : log[k][i] = WriteEv(Processing, 65)

\* The input words are ordered by start and do not overlap.
OrderedData == \A i \in 2..Len(data) : data[i - 1].end <= data[i].start

\* C28: every output line of _run_combine_words starts at the start of the
\* first word placed in it and ends at the end of the last word placed in it;
\* so for input words ordered by start and non-overlapping the output lines
\* are ordered by start and each line ends no later than the next one starts.
C28_LineSpansItsWords ==
    returned =>
        /\ \A n \in LineIndex :
               LET l == subtitle_lines[n]
               IN /\ l.words # <<>>
                  /\ l.start = WordsOf(l)[1].start
                  /\ l.end = WordsOf(l)[Len(l.words)].end
        /\ OrderedData =>
               \A n \in LineIndex \ {1} :
                   /\ subtitle_lines[n - 1].start <= subtitle_lines[n].start
                   /\ subtitle_lines[n - 1].end <= subtitle_lines[n].start

\* C28 witness: ordered words gave two lines, the first made of two words
\* with a pause between them, the second starting after a pause.
C28_Witness ==
    /\ returned
    /\ OrderedData
    /\ Len(subtitle_lines) = 2
    /\ Len(subtitle_lines[1].words) = 2
    /\ InternalGap(subtitle_lines[1])
    /\ subtitle_lines[1].end < subtitle_lines[2].start

\* C29: only the first word of a line can make the line exceed a limit: every
\* output line of _run_combine_words made of two or more words has
\* duration <= max_duration and untrimmed text length < max_chars, whatever
\* the input words (words with empty text included).
C29_LimitsKeptAfterFirstWord ==
    returned =>
        \A n \in LineIndex :
            LET l == subtitle_lines[n]
            IN Len(l.words) >= 2 =>
                   /\ l.duration <= max_duration
                   /\ Len(UntrimmedText(l)) < max_chars

\* C30: the flattened layer list handed to the renderer holds, with shadow
\* enabled, exactly two layers per line, every shadow layer before every
\* caption layer and each group in line order, and with shadow disabled
\* exactly one caption layer per line in line order; every layer of a line
\* has the line's text, starts at line.start and lasts line.end - line.start.
C30_LayersByGroup ==
    captioned =>
        LET n == Len(subtitle_lines)
            OfLine(clip, k) ==
                /\ clip.text = subtitle_lines[k].line
                /\ clip.start = subtitle_lines[k].start
                /\ clip.duration = FloatSub(subtitle_lines[k].end, subtitle_lines[k].start)
        IN IF shadow
             THEN /\ Len(all_clips) = 2 * n
                  /\ \A k \in 1..n :
                         /\ all_clips[k].layer = "shadow" /\ OfLine(all_clips[k], k)
                         /\ all_clips[n + k].layer = "caption" /\ OfLine(all_clips[n + k], k)
             ELSE /\ Len(all_clips) = n
                  /\ \A k \in 1..n :
                         all_clips[k].layer = "caption" /\ OfLine(all_clips[k], k)

\* C30 witness: layers with shadows were built for two lines, the first of
\* which lasts longer than the durations of its words add up to.
C30_Witness ==
    /\ captioned
    /\ shadow
    /\ Len(subtitle_lines) = 2
    /\ Len(all_clips) = 4
    /\ subtitle_lines[1].line # subtitle_lines[2].line
    /\ all_clips[1].duration > subtitle_lines[1].duration

\* background_video_processing has executed its first statement for job j.
Started(j) == pc[j] \notin {"idle", "save_upload", "bg_start"}

\* C31: when every stage call returns and every store write succeeds, every
\* job for which background_video_processing is started eventually has its
\* row Completed or Failed; it does not stay NotStarted or Processing forever.
C31_StartedEndsTerminal ==
    \A j \in JobIds :
        Started(j) ~> (HasRow(Jobs, j) /\ TerminalStatus(Row(j).Status_ID))

\* C31 witness: both jobs were started and ran to their end, one Completed,
\* the other Failed by its rendering raising.
C31_Witness ==
    \E j, k \in JobIds :
        /\ Started(j) /\ pc[j] = "done" /\ Row(j).Status_ID = Completed
        /\ Started(k) /\ pc[k] = "done" /\ Row(k).Status_ID = Failed
        /\ \E i \in 1..Len(log[k]) : log[k][i].ev = "ret" /\ log[k][i].stage = "render"
                                       /\ ~log[k][i].ok

\* C32: for every job created by create_job, whatever the suffix of the
\* uploaded file name, the input path, the audio path _convert_video_to_mp3
\* computes from it and the output path are pairwise distinct.
C32_PathsDistinct ==
    \A j \in JobIds :
        CreateJobReturned(j) =>
            LET input_path      == args[j].input_path
                output_path     == args[j].output_path
                audio_file_path == AudioFilePath(input_path)
            IN /\ input_path # audio_file_path
               /\ input_path # output_path
               /\ audio_file_path # output_path

====
